---- MODULE Spec2Model ----
(***************************************************************************)
(* Model of DiffCli.py: build_tree (indentation-stack parser) and          *)
(* diff_trees (recursive three-way tree diff).                             *)
(*                                                                         *)
(* A string is a sequence of one-character strings.  A dict object lives   *)
(* in a heap (a sequence of dicts, addressed by position); a dict is a set *)
(* of <<key, id>> pairs with pairwise distinct keys.  A tree handed to     *)
(* diff_trees is the set of key paths of a nested dict.                    *)
(***************************************************************************)
EXTENDS Integers, Sequences, FiniteSets, TLC

VARIABLES config_lines, stack, heap, placed, raised,
          old_tree, new_tree, old_at_call, new_at_call, diff_lines, missed, phase

vars == <<config_lines, stack, heap, placed, raised,
          old_tree, new_tree, old_at_call, new_at_call, diff_lines, missed, phase>>

buildVars == <<config_lines, stack, heap, placed, raised>>
diffVars == <<old_tree, new_tree, old_at_call, new_at_call, diff_lines, missed>>

\* ------------------------------------------------------------------ bounds
MaxIndent == 2
MaxLines == 3
MaxNodes == 4

\* ------------------------------------------------------------- characters
Whitespace == {" ", "\n", "\t"}

RECURSIVE lstrip(_)
lstrip(s) == IF s # <<>> /\ Head(s) \in Whitespace THEN lstrip(Tail(s)) ELSE s

RECURSIVE rstrip(_)
rstrip(s) ==
    IF s # <<>> /\ s[Len(s)] \in Whitespace
    THEN rstrip(SubSeq(s, 1, Len(s) - 1))
    ELSE s

strip(s) == lstrip(rstrip(s))

RECURSIVE Spaces(_)
Spaces(n) == IF n = 0 THEN <<>> ELSE <<" ">> \o Spaces(n - 1)

\* --------------------------------------------------------------- build_tree
RawLine(line) == rstrip(line)

\* Mutant: the "!" test is made on the untrimmed line.
IsSkipLineNoLstrip(line) ==
    \/ strip(RawLine(line)) = <<>>
    \/ RawLine(line) = <<"!">>

IsSkipLine(line) ==
    \/ strip(RawLine(line)) = <<>>
    \/ lstrip(RawLine(line)) = <<"!">>

IndentOf(line) == Len(line) - Len(lstrip(line))

CmdOf(line) == strip(RawLine(line))

ROOT == 1

\* Mutant: the stack is seeded with (0, root).
SentinelZero == <<0, ROOT>>

Sentinel == <<-1, ROOT>>

\* Mutant: only strictly deeper entries are popped.
PopWhileDeeper(top_indent, indent) == top_indent > indent

PopWhile(top_indent, indent) == top_indent >= indent

RECURSIVE PopStack(_, _)
PopStack(stk, indent) ==
    IF stk # <<>> /\ PopWhile(stk[Len(stk)][1], indent)
    THEN PopStack(SubSeq(stk, 1, Len(stk) - 1), indent)
    ELSE stk

\* parent[cmd] = defaultdict(dict): the entry for cmd, if any, is replaced by
\* a reference to a freshly allocated empty dict.
\* Mutant: an existing entry for cmd is kept (setdefault).
SetItemKeep(dict, cmd, id) ==
    IF \E e \in dict : e[1] = cmd THEN dict ELSE dict \cup {<<cmd, id>>}

SetItem(dict, cmd, id) == {e \in dict : e[1] # cmd} \cup {<<cmd, id>>}

\* One iteration of the for loop over a non-skipped line; st is the record
\* of the function's locals [stack, heap, placed, raised].
InsertLine(st, line) ==
    LET indent == IndentOf(line)
        cmd == CmdOf(line)
        stk == PopStack(PopStack(st.stack, indent), indent)
    IN  IF stk = <<>>
        THEN [st EXCEPT !.stack = stk, !.raised = TRUE]
        ELSE LET parent == stk[Len(stk)][2]
                 node == Len(st.heap) + 1
             IN  [stack |-> Append(stk, <<indent, node>>),
                  heap |-> Append([st.heap EXCEPT ![parent] = SetItem(@, cmd, node)], {}),
                  placed |-> Append(st.placed,
                                    [indent |-> indent, cmd |-> cmd,
                                     node |-> node, parent |-> parent]),
                  raised |-> FALSE]

LoopBody(st, line) == IF IsSkipLine(line) THEN st ELSE InsertLine(st, line)

BuildInit == [stack |-> <<Sentinel>>, heap |-> <<{}>>, placed |-> <<>>, raised |-> FALSE]

\* The value returned by build_tree: the nested dict reachable from id, as
\* the set of its key paths.
RECURSIVE TreeOf(_, _)
TreeOf(h, id) ==
    UNION {{<<e[1]>>} \cup {<<e[1]>> \o q : q \in TreeOf(h, e[2])} : e \in h[id]}

RECURSIVE BuildFrom(_, _)
BuildFrom(st, lines) ==
    IF lines = <<>> \/ st.raised THEN st
    ELSE BuildFrom(LoopBody(st, Head(lines)), Tail(lines))

build_tree(lines) == TreeOf(BuildFrom(BuildInit, lines).heap, ROOT)

\* --------------------------------------------------------------- diff_trees
Keys(tree) == {p[1] : p \in tree}

Child(tree, key) == {Tail(p) : p \in {q \in tree : Len(q) > 1 /\ q[1] = key}}

\* tree[key] on a defaultdict(dict): a missing key is inserted with an empty
\* dict before the value is returned (on the plain {} of lines 61 and 67 the
\* same access would raise KeyError); missed records that the key was absent.
GetItem(tree, key) ==
    [tree |-> tree \cup {<<key>>},
     value |-> Child(tree, key),
     missed |-> key \notin Keys(tree)]

\* The dict returned by tree[key] is shared with the tree: what the callee
\* does to it is seen through the tree.
Alias(tree, key, value) ==
    {p \in tree : p[1] # key} \cup {<<key>>} \cup {<<key>> \o q : q \in value}

RemovedLine(indent, key) == Spaces(2 * indent) \o <<"-", " ">> \o key
AddedLine(indent, key) == Spaces(2 * indent) \o <<"+", " ">> \o key
HeaderLine(indent, key) == Spaces(2 * indent) \o key

OnlyInOld(key, old, new) == key \in Keys(old) /\ key \notin Keys(new)

\* Mutant: the elif repeats the test of the if.
OnlyInNewAsOld(key, old, new) == key \in Keys(old) /\ key \notin Keys(new)

OnlyInNew(key, old, new) == key \in Keys(new) /\ key \notin Keys(old)

\* Mutant: only the root of a removed subtree is listed.
RemovedBlockRootOnly(indent, key, child_diff) == <<RemovedLine(indent, key)>>

RemovedBlock(indent, key, child_diff) == <<RemovedLine(indent, key)>> \o child_diff

AddedBlock(indent, key, child_diff) == <<AddedLine(indent, key)>> \o child_diff

\* Mutant: the header is emitted whether or not the children differ.
HeaderBlockAlways(indent, key, child_diff) == <<HeaderLine(indent, key)>> \o child_diff

\* Mutant: the header is appended after the child differences.
HeaderBlockTrailing(indent, key, child_diff) ==
    IF child_diff # <<>> THEN child_diff \o <<HeaderLine(indent, key)>> ELSE <<>>

HeaderBlock(indent, key, child_diff) ==
    IF child_diff # <<>> THEN <<HeaderLine(indent, key)>> \o child_diff ELSE <<>>

\* diff_trees is a set of outcomes, one for every order in which the
\* iterations over the unordered set(old_tree) | set(new_tree) may run.  An
\* outcome holds the returned lines, the two argument dicts as the call
\* leaves them, and whether a dict was indexed with a key it did not hold.
RECURSIVE diff_trees(_, _, _)
RECURSIVE DiffLoop(_, _, _, _)
RECURSIVE DiffKey(_, _, _, _)

DiffKey(key, old, new, indent) ==
    IF OnlyInOld(key, old, new)
    THEN LET g == GetItem(old, key)
         IN  {[lines |-> RemovedBlock(indent, key, r.lines),
               old |-> Alias(g.tree, key, r.old),
               new |-> new,
               missed |-> g.missed \/ r.missed]
              : r \in diff_trees(g.value, {}, indent + 1)}
    ELSE IF OnlyInNew(key, old, new)
    THEN LET g == GetItem(new, key)
         IN  {[lines |-> AddedBlock(indent, key, r.lines),
               old |-> old,
               new |-> Alias(g.tree, key, r.new),
               missed |-> g.missed \/ r.missed]
              : r \in diff_trees({}, g.value, indent + 1)}
    ELSE LET go == GetItem(old, key)
             gn == GetItem(new, key)
         IN  {[lines |-> HeaderBlock(indent, key, r.lines),
               old |-> Alias(go.tree, key, r.old),
               new |-> Alias(gn.tree, key, r.new),
               missed |-> go.missed \/ gn.missed \/ r.missed]
              : r \in diff_trees(go.value, gn.value, indent + 1)}

DiffLoop(todo, old, new, indent) ==
    IF todo = {}
    THEN {[lines |-> <<>>, old |-> old, new |-> new, missed |-> FALSE]}
    ELSE UNION {UNION {{[lines |-> r.lines \o rest.lines,
                         old |-> rest.old,
                         new |-> rest.new,
                         missed |-> r.missed \/ rest.missed]
                        : rest \in DiffLoop(todo \ {key}, r.old, r.new, indent)}
                       : r \in DiffKey(key, old, new, indent)}
                : key \in todo}

diff_trees(old, new, indent) == DiffLoop(Keys(old) \cup Keys(new), old, new, indent)

\* ------------------------------------------------------------------ inputs
Bodies == {<<>>, <<"!">>, <<"a">>, <<"b">>}
Trails == {<<>>, <<" ", "\n">>}
LineSet == {Spaces(n) \o b \o t : n \in 0..MaxIndent, b \in Bodies, t \in Trails}

KeySet == {<<"a">>, <<"b">>}

Extend(tree) == {tree \cup {p \o <<k>>} : p \in tree \cup {<<>>}, k \in KeySet}

RECURSIVE TreesUpTo(_)
TreesUpTo(n) ==
    IF n = 0 THEN {{}}
    ELSE LET S == TreesUpTo(n - 1) IN S \cup UNION {Extend(tree) : tree \in S}

OldScenario ==
    << <<"i","n","t","e","r","f","a","c","e"," ","e","t","h","0">>,
       <<" "," ","i","p"," ","a","d","d","r","e","s","s"," ","1",".","2",".","3",".","4">>,
       <<"!">> >>

NewScenario ==
    << <<"i","n","t","e","r","f","a","c","e"," ","e","t","h","0">>,
       <<" "," ","i","p"," ","a","d","d","r","e","s","s"," ","5",".","6",".","7",".","8">> >>

TreePairs ==
    (TreesUpTo(MaxNodes) \X TreesUpTo(MaxNodes))
        \cup {<<build_tree(OldScenario), build_tree(NewScenario)>>}

\* ----------------------------------------------------------- specification
Init ==
    /\ config_lines = <<>>
    /\ stack = BuildInit.stack
    /\ heap = BuildInit.heap
    /\ placed = BuildInit.placed
    /\ raised = BuildInit.raised
    /\ old_tree = {}
    /\ new_tree = {}
    /\ old_at_call = {}
    /\ new_at_call = {}
    /\ diff_lines = <<>>
    /\ missed = FALSE
    /\ phase = "build"

ReadLine(line) ==
    /\ phase = "build"
    /\ ~raised
    /\ Len(config_lines) < MaxLines
    /\ LET st == LoopBody([stack |-> stack, heap |-> heap,
                           placed |-> placed, raised |-> raised], line)
       IN  /\ stack' = st.stack
           /\ heap' = st.heap
           /\ placed' = st.placed
           /\ raised' = st.raised
    /\ config_lines' = Append(config_lines, line)
    /\ UNCHANGED <<diffVars, phase>>

Next == \E line \in LineSet : ReadLine(line)

Spec == Init /\ [][Next]_vars

\* diff_trees applied to a pair of trees (generate_diff, line 84).
InitDiff ==
    /\ config_lines = <<>>
    /\ stack = BuildInit.stack
    /\ heap = BuildInit.heap
    /\ placed = BuildInit.placed
    /\ raised = BuildInit.raised
    /\ \E pair \in TreePairs :
          /\ old_tree = pair[1]
          /\ new_tree = pair[2]
          /\ old_at_call = pair[1]
          /\ new_at_call = pair[2]
    /\ diff_lines = <<>>
    /\ missed = FALSE
    /\ phase = "diff"

DiffTrees ==
    /\ phase = "diff"
    /\ \E r \in diff_trees(old_tree, new_tree, 0) :
          /\ diff_lines' = r.lines
          /\ old_tree' = r.old
          /\ new_tree' = r.new
          /\ missed' = r.missed
    /\ phase' = "done"
    /\ UNCHANGED <<buildVars, old_at_call, new_at_call>>

NextDiff == DiffTrees

SpecDiff == InitDiff /\ [][NextDiff]_vars
\* ================================================================ build_tree
Last(seq) == seq[Len(seq)]

AllWhitespace(s) == \A i \in 1..Len(s) : s[i] \in Whitespace

\* The line is whitespace around a single "!".
OnlyBang(s) ==
    \E i \in 1..Len(s) : s[i] = "!" /\ \A j \in 1..Len(s) : j # i => s[j] \in Whitespace

SkipShaped(line) == AllWhitespace(line) \/ OnlyBang(line)

\* The number of whitespace characters before the i-th, counted from the
\* i-th on: with i = 1, the length of the leading whitespace run.
RECURSIVE LeadingFrom(_, _)
LeadingFrom(line, i) ==
    IF i <= Len(line) /\ line[i] \in Whitespace THEN LeadingFrom(line, i + 1) ELSE i - 1

LeadingWhitespace(line) == LeadingFrom(line, 1)

\* The dicts reachable from the root dict.
RECURSIVE LiveFrom(_, _)
LiveFrom(h, id) == {id} \cup UNION {LiveFrom(h, e[2]) : e \in h[id]}

Live == LiveFrom(heap, ROOT)

\* C5: a line that is blank, whitespace-only, or whitespace around a single
\* "!" creates no node and leaves the indentation stack and the dicts
\* exactly as they were, so the lines read after it are placed as if it were
\* not there; for inputs shorter than MaxLines the returned trees are also
\* compared directly, with the line inserted at every position.
InsertAt(lines, pos, line) ==
    SubSeq(lines, 1, pos) \o <<line>> \o SubSeq(lines, pos + 1, Len(lines))

C5_SkipLineInvisible ==
    [][(config_lines' # config_lines /\ SkipShaped(Last(config_lines')))
         => /\ stack' = stack
            /\ heap' = heap
            /\ placed' = placed
            /\ ~raised'
            /\ Len(config_lines') < MaxLines =>
                  \A pos \in 0..Len(config_lines) :
                      build_tree(InsertAt(config_lines, pos, Last(config_lines')))
                          = TreeOf(heap, ROOT)]_vars

\* An indented skip line was read between a parent line and its child line.
C5_Witness ==
    /\ Len(config_lines) = 3
    /\ SkipShaped(config_lines[2])
    /\ OnlyBang(config_lines[2])
    /\ LeadingWhitespace(config_lines[2]) = 0
    /\ Len(config_lines[2]) > 1
    /\ Len(placed) = 2
    /\ placed[2].parent = placed[1].node
    /\ TreeOf(heap, ROOT) = {<<placed[1].cmd>>, <<placed[1].cmd, placed[2].cmd>>}

\* The latest line placed under parent with text cmd.
LatestPlaced(parent, cmd) ==
    CHOOSE j \in 1..Len(placed) :
        /\ placed[j].parent = parent /\ placed[j].cmd = cmd
        /\ \A m \in (j + 1)..Len(placed) :
              ~(placed[m].parent = parent /\ placed[m].cmd = cmd)

\* C6: when two lines with the same trimmed text are inserted under the same
\* parent dict, that dict holds one entry for the text, the dict of the
\* latest occurrence, whose children are lines read after that occurrence
\* with it as parent; the dict of the earlier occurrence and every child
\* collected under it are no longer in the tree.
C6_DuplicateCollapse ==
    \A i, j \in 1..Len(placed) :
        (i < j /\ placed[i].parent = placed[j].parent /\ placed[i].cmd = placed[j].cmd)
        => LET parent == placed[i].parent
               cmd == placed[i].cmd
               keep == LatestPlaced(parent, cmd)
           IN  /\ {e \in heap[parent] : e[1] = cmd} = {<<cmd, placed[keep].node>>}
               /\ placed[i].node \notin Live
               /\ \A m \in 1..Len(placed) :
                     placed[m].parent = placed[i].node => placed[m].node \notin Live
               /\ \A e \in heap[placed[keep].node] :
                     \E m \in (keep + 1)..Len(placed) :
                         /\ placed[m].node = e[2]
                         /\ placed[m].parent = placed[keep].node
                         /\ placed[m].cmd = e[1]

\* The first of two equal siblings had a child, which the second discards.
C6_Witness ==
    /\ Len(placed) = 3
    /\ placed[1].cmd = placed[3].cmd
    /\ placed[1].parent = placed[3].parent
    /\ placed[2].parent = placed[1].node
    /\ TreeOf(heap, ROOT) = {<<placed[3].cmd>>}

\* The nearest line placed before the j-th whose indentation is strictly
\* smaller, 0 when there is none.
ScanBack(j) ==
    LET smaller == {i \in 1..(j - 1) : placed[i].indent < placed[j].indent}
    IN  IF smaller = {} THEN 0 ELSE CHOOSE i \in smaller : \A k \in smaller : k <= i

RECURSIVE ScanDepth(_)
ScanDepth(j) == IF ScanBack(j) = 0 THEN 0 ELSE 1 + ScanDepth(ScanBack(j))

\* Number of dicts between the root dict and the dict id; -1 when the dict
\* is not in the tree.
RECURSIVE DepthFrom(_, _, _)
DepthFrom(h, from, id) ==
    IF \E e \in h[from] : e[2] = id THEN 0
    ELSE LET below == {DepthFrom(h, e[2], id) : e \in h[from]} \ {-1}
         IN  IF below = {} THEN -1 ELSE 1 + (CHOOSE d \in below : TRUE)

\* C7: every placed line is a child of the nearest preceding placed line of
\* strictly smaller indentation (of the root when there is none), and the
\* depth of the line placed last equals the number of ancestors found by
\* scanning backward repeatedly.
C7_ParentIsNearestSmallerIndent ==
    /\ \A j \in 1..Len(placed) :
          placed[j].parent = IF ScanBack(j) = 0 THEN ROOT ELSE placed[ScanBack(j)].node
    /\ placed # <<>> =>
          /\ Last(placed).indent = LeadingWhitespace(
                 Last(SelectSeq(config_lines, LAMBDA l : ~SkipShaped(l))))
          /\ <<Last(placed).cmd, Last(placed).node>> \in heap[Last(placed).parent]
          /\ DepthFrom(heap, ROOT, Last(placed).node) = ScanDepth(Len(placed))

\* Inconsistent indentation: the third line is indented less than the second
\* and more than the first, and both are children of the first.
C7_Witness ==
    /\ Len(placed) = 3
    /\ placed[1].indent < placed[3].indent
    /\ placed[3].indent < placed[2].indent
    /\ placed[2].parent = placed[1].node
    /\ placed[3].parent = placed[1].node
    /\ DepthFrom(heap, ROOT, placed[3].node) = 1

\* C8: build_tree never fails: every computed indentation is >= 0, the
\* sentinel (-1, root) stays at the bottom of the stack, the stack is not
\* empty when the parent is read, and its indentation levels increase
\* strictly from bottom to top after every line.
C8_NeverFails ==
    /\ ~raised
    /\ \A j \in 1..Len(placed) : placed[j].indent >= 0
    /\ stack # <<>>
    /\ stack[1] = <<-1, ROOT>>
    /\ \A i \in 1..(Len(stack) - 1) : stack[i][1] < stack[i + 1][1]

\* A line at indentation 0 popped a deeper stack down to the sentinel.
C8_Witness ==
    /\ Len(placed) = 3
    /\ placed[2].indent > 0
    /\ placed[3].indent = 0
    /\ Len(stack) = 2
    /\ ~raised
\* ================================================================ diff_trees
Front(p) == SubSeq(p, 1, Len(p) - 1)

IsPrefix(p, q) == Len(p) <= Len(q) /\ SubSeq(q, 1, Len(p)) = p

\* The descendants of the node at path p, as paths below p.
Sub(tree, p) ==
    {SubSeq(q, Len(p) + 1, Len(q)) : q \in {x \in tree : Len(x) > Len(p) /\ IsPrefix(p, x)}}

\* A report line read back: depth, marker and key.
LineDepth(l) == LeadingWhitespace(l) \div 2

BodyFrom(l, lead) == SubSeq(l, lead + 1, Len(l))

LineBody(l) == BodyFrom(l, LeadingWhitespace(l))

BodyMarker(b) ==
    IF Len(b) >= 2 /\ b[1] = "-" /\ b[2] = " " THEN "removed"
    ELSE IF Len(b) >= 2 /\ b[1] = "+" /\ b[2] = " " THEN "added"
    ELSE "header"

BodyKey(b) == IF BodyMarker(b) = "header" THEN b ELSE SubSeq(b, 3, Len(b))

Marker(l) == BodyMarker(LineBody(l))

LineKey(l) == BodyKey(LineBody(l))

\* The report read back: for each line its depth, marker, key and key path.
\* The path of an entry is the path of the entry before it cut to the
\* entry's depth, then its own key: the keys of the nearest less deep entries
\* above it, outermost first.
EntryOf(above, d, marker, key) ==
    [depth |-> d, marker |-> marker, key |-> key,
     path |-> SubSeq(above, 1, IF d <= Len(above) THEN d ELSE Len(above)) \o <<key>>]

EntryOfBody(above, lead, b) == EntryOf(above, lead \div 2, BodyMarker(b), BodyKey(b))

EntryOfLine(above, l, lead) == EntryOfBody(above, lead, BodyFrom(l, lead))

ReadNext(before, l) ==
    Append(before,
           EntryOfLine(IF before = <<>> THEN <<>> ELSE before[Len(before)].path,
                       l, LeadingWhitespace(l)))

RECURSIVE ReadUpTo(_, _)
ReadUpTo(rep, n) == IF n = 0 THEN <<>> ELSE ReadNext(ReadUpTo(rep, n - 1), rep[n])

Read(rep) == ReadUpTo(rep, Len(rep))

\* The nearest entry before the i-th that is less deep, 0 when there is none.
Above(rd, i) ==
    LET up == {j \in 1..(i - 1) : rd[j].depth < rd[i].depth}
    IN  IF up = {} THEN 0 ELSE CHOOSE j \in up : \A k \in up : k <= j

\* The last of the entries that follow the i-th and are deeper than it, up
\* to the next entry that is not.
BlockEnd(rd, i) ==
    LET stop == {j \in (i + 1)..Len(rd) : rd[j].depth <= rd[i].depth}
    IN  IF stop = {} THEN Len(rd) ELSE (CHOOSE j \in stop : \A k \in stop : j <= k) - 1

EntriesAt(rd, p) == {i \in 1..Len(rd) : rd[i].path = p}

Done == phase = "done"

\* C1: when a key path is in both trees and the subtrees below it are the
\* same, the report holds no entry for that path or for any path below it;
\* in particular the report of a tree against itself is empty.
C1_UnchangedSubtreeElided ==
    Done =>
        \A rd \in {Read(diff_lines)} :
            /\ \A p \in old_at_call \cap new_at_call :
                  Sub(old_at_call, p) = Sub(new_at_call, p)
                  => \A i \in 1..Len(rd) : ~IsPrefix(p, rd[i].path)
            /\ old_at_call = new_at_call => diff_lines = <<>>

\* A nested key has equal, non-empty subtrees in both trees while its
\* parent differs elsewhere, so the report is not empty.
C1_Witness ==
    /\ Done
    /\ diff_lines # <<>>
    /\ \E p \in old_at_call \cap new_at_call :
          /\ Len(p) = 2
          /\ Sub(old_at_call, p) # {}
          /\ Sub(old_at_call, p) = Sub(new_at_call, p)

\* C2: a key that is only in the old tree, at a level the diff reaches, has
\* exactly one removed entry at its depth, followed by exactly one removed
\* entry for each of its n descendants at the descendant's depth, and no
\* added or header entry among them.
C2_RemovedSubtreeListed ==
    Done =>
        \A rd \in {Read(diff_lines)} :
        \A p \in old_at_call \ new_at_call :
            (Len(p) = 1 \/ Front(p) \in new_at_call)
            => /\ Cardinality(EntriesAt(rd, p)) = 1
               /\ \A i \in EntriesAt(rd, p) :
                  \A last \in {BlockEnd(rd, i)} :
                     /\ rd[i].marker = "removed"
                     /\ rd[i].depth = Len(p) - 1
                     /\ last - i = Cardinality(Sub(old_at_call, p))
                     /\ \A e \in (i + 1)..last : rd[e].marker = "removed"
                     /\ \A q \in Sub(old_at_call, p) :
                           \E e \in (i + 1)..last :
                               /\ rd[e].path = p \o q
                               /\ rd[e].depth = Len(p \o q) - 1

\* A key only in the old tree has a descendant two levels below it, and the
\* new tree is not empty.
C2_Witness ==
    /\ Done
    /\ new_at_call # {}
    /\ \E p \in old_at_call \ new_at_call :
          /\ Len(p) = 1
          /\ \E q \in Sub(old_at_call, p) : Len(q) = 2
          /\ Len(diff_lines) > 1 + Cardinality(Sub(old_at_call, p))

\* The report with removed and added exchanged.
SwapLine(l) ==
    IF Marker(l) = "removed" THEN AddedLine(LineDepth(l), LineKey(l))
    ELSE IF Marker(l) = "added" THEN RemovedLine(LineDepth(l), LineKey(l))
    ELSE l

SwapMarkers(rep) == [i \in 1..Len(rep) |-> SwapLine(rep[i])]

\* C3: the report of (B, A) is the report of (A, B) with removed and added
\* exchanged, entry by entry: same position, same depth, same headers.
C3_SymmetricPositions ==
    Done =>
        \A r \in diff_trees(new_at_call, old_at_call, 0) :
            r.lines = SwapMarkers(diff_lines)

ExpectedScenario ==
    << <<"i","n","t","e","r","f","a","c","e"," ","e","t","h","0">>,
       <<" "," ","-"," ","i","p"," ","a","d","d","r","e","s","s"," ","1",".","2",".","3",".","4">>,
       <<" "," ","+"," ","i","p"," ","a","d","d","r","e","s","s"," ","5",".","6",".","7",".","8">> >>

\* C4: for the interface eth0 scenario the report is the header, then the
\* removed address, then the added address, in that order.
C4_ScenarioOrder ==
    (Done /\ old_at_call = build_tree(OldScenario) /\ new_at_call = build_tree(NewScenario))
    => diff_lines = ExpectedScenario

\* C9: diff_trees leaves both trees with the key sets they had at the call,
\* and never indexes a dict with a key the dict does not hold.
C9_TreesUnchanged ==
    Done => /\ old_tree = old_at_call
            /\ new_tree = new_at_call
            /\ ~missed

\* The three cases of the loop all ran, one of them below a key the trees
\* share.
C9_Witness ==
    /\ Done
    /\ \E i, j, k \in 1..Len(diff_lines) :
          /\ Marker(diff_lines[i]) = "header"
          /\ Marker(diff_lines[j]) = "removed"
          /\ Marker(diff_lines[k]) = "added"
          /\ LineDepth(diff_lines[j]) = 1
    /\ old_tree = old_at_call
    /\ new_tree = new_at_call

\* C10: a key path in both trees has a header entry exactly when the diff
\* of its two children mappings is not empty; the header is at the depth of
\* the key, carries no marker, and is followed at once by those child
\* entries, all deeper, before any other entry; and every entry below depth
\* 0 follows the entry of its parent key, one level up.
C10_HeaderIffChildDiff ==
    Done =>
        \A rd \in {Read(diff_lines)} :
        /\ \A p \in old_at_call \cap new_at_call :
              \A subs \in {{r.lines : r \in diff_trees(Sub(old_at_call, p),
                                                       Sub(new_at_call, p), Len(p))}} :
                  IF <<>> \in subs
                  THEN EntriesAt(rd, p) = {}
                  ELSE /\ Cardinality(EntriesAt(rd, p)) = 1
                       /\ \A i \in EntriesAt(rd, p) :
                          \A last \in {BlockEnd(rd, i)} :
                             /\ diff_lines[i] = Spaces(2 * (Len(p) - 1)) \o Last(p)
                             /\ SubSeq(diff_lines, i + 1, last) \in subs
                             /\ \A e \in (i + 1)..last : rd[e].depth >= Len(p)
        /\ \A i \in 1..Len(rd) :
              /\ rd[i].path \in old_at_call \cup new_at_call
              /\ Len(rd[i].path) = rd[i].depth + 1
              /\ rd[i].depth > 0 =>
                    \A up \in {Above(rd, i)} :
                        /\ up # 0
                        /\ rd[up].depth = rd[i].depth - 1
                        /\ rd[up].path = Front(rd[i].path)

\* A header below depth 0, its child entries, and then an entry of a sibling
\* of one of its ancestors.
C10_Witness ==
    /\ Done
    /\ \E i \in 1..Len(diff_lines) :
          /\ Marker(diff_lines[i]) = "header"
          /\ LineDepth(diff_lines[i]) = 1
          /\ BlockEnd(Read(diff_lines), i) > i
          /\ BlockEnd(Read(diff_lines), i) < Len(diff_lines)

====
